---- MODULE Spec2Model ----
(***************************************************************************)
(* The partition worker of src/streams/source.go: the ingress loop        *)
(* (pushRecords), the dispatch loop (work), the drain watcher              *)
(* (waitForRevocation), the consumer thread (add / revoke), the user's     *)
(* async completions and the two collaborators the worker talks to, the    *)
(* producer pool and the interjection timers.                              *)
(***************************************************************************)
EXTENDS Integers, Sequences, FiniteSets, TLC

\* ---------------------------------------------------------------- bounds
\* number of AsyncComplete calls the user's code makes
MaxJobs == 2
\* eosProducer.maxPendingItems(), a configuration value
MaxPendingItems == 2
\* number of times the periodic interjection timer fires
MaxFires == 1

\* ------------------------------------------------------ program constants
partitionInputSize == 4
recordsInputSize == 100
asyncSize == recordsInputSize * 4
interjectionInputSize == 1
interjectionEventInputSize == 1
initialHighestOffset == 0 - 1

\* ExecutionState
Complete == "Complete"
Incomplete == "Incomplete"
Fatal == "Fatal"
ExecutionState == {Complete, Incomplete, Fatal}

\* a *kgo.Record is its offset, or nil
Rec(o) == [isNil |-> FALSE, Offset |-> o]
NilRecord == [isNil |-> TRUE, Offset |-> 0]

\* a batch of n records of increasing offsets 0 .. n-1
Increasing(n) == [i \in 1..n |-> Rec(i - 1)]

\* the runs explored: what the consumer offers through add(), batch by
\* batch, how often the periodic timer fires, whether a caller submits the
\* one-shot interjection, how many AsyncComplete calls the user makes and
\* how many producer slots the pool has for this partition.
\*   redelivery:   one batch in which a run of offsets is redelivered
\*   stale:        a batch, then one with a nil record, a redelivered
\*                 offset and a new one
\*   backpressure: more increasing records than there are tokens, then
\*                 enough batches to fill partitionInput and block add
\*   interjection: a batch of two records with both interjections
\*   starved pool: a batch of two records for a pool with a single slot
Scenarios ==
  { [script |-> << <<Rec(0), Rec(1), Rec(0), Rec(1)>> >>,
     fires |-> 0, oneShot |-> "none", jobs |-> MaxJobs,
     slots |-> MaxPendingItems],
    [script |-> << <<Rec(0)>>, <<NilRecord, Rec(0), Rec(1)>> >>,
     fires |-> 0, oneShot |-> "none", jobs |-> MaxJobs,
     slots |-> MaxPendingItems],
    [script |-> << Increasing(MaxPendingItems + 1), <<NilRecord>>,
                   <<NilRecord>>, <<NilRecord>>, <<NilRecord>>,
                   <<NilRecord>> >>,
     fires |-> 0, oneShot |-> "none", jobs |-> 0,
     slots |-> MaxPendingItems],
    [script |-> << Increasing(2) >>,
     fires |-> MaxFires, oneShot |-> "idle", jobs |-> MaxJobs - 1,
     slots |-> MaxPendingItems],
    [script |-> << Increasing(2) >>,
     fires |-> 0, oneShot |-> "none", jobs |-> MaxJobs - 1,
     slots |-> 1] }

\* the interjections: "P" is a periodic one of eventSource.interjections
\* (no callback), "O" a one-shot with a callback
Interjections == {"P", "O"}
hasCallback(ij) == ij = "O"

VARIABLES
  running,                \* runStatus.Running()
  ready,                  \* pw.ready
  paused,                 \* the partition is paused on the Kafka consumer
  bootstrapped,           \* waiter() has returned
  activated,              \* OnPartitionActivated has run
  highestOffset,          \* pw.highestOffset
  revocationWaiter,       \* counter of pw.revocationWaiter
  maxPending,             \* number of tokens in the maxPending channel
  partitionInput,         \* chan []*kgo.Record
  eventInput,             \* chan *EventContext, as context ids
  interjectionInput,      \* chan *interjection
  interjectionEventInput, \* chan *EventContext, as context ids
  asyncJobs,              \* chan AsyncJob
  revokedSignal,          \* number of values in the revokedSignal channel
  closed,                 \* partitionInput, eventInput, asyncJobs are closed
  panicked,               \* a send on a closed channel happened
  ctx,                    \* every EventContext created, in creation order
  ipc, records, idx, iij, \* ingress loop: position, batch, index, interjection
  dpc, dec,               \* dispatch loop: position, context being handled
  wpc,                    \* drain watcher: position
  apc, abatch,            \* consumer thread inside add(): position, batch
  scenario,               \* the run explored, fixed at the start
  script,                 \* the batches the consumer has still to offer
  jobs,                   \* AsyncComplete calls the user has still to make
  armed, fires,           \* periodic timer armed, firings still to come
  oneShot,                \* the one-shot interjection: "none", "idle", "sent"
                          \* (enqueued on a running worker), "late"
  callbacks,              \* number of times the one-shot callback ran
  ticks,                  \* number of tick() calls
  rwNet, created,         \* ingress loop's net Add-Done and contexts created
                          \* for the batch being scheduled
  interleaved             \* interjections interleaved into that batch

vars == <<running, ready, paused, bootstrapped, activated, highestOffset,
          revocationWaiter, maxPending, partitionInput, eventInput,
          interjectionInput, interjectionEventInput, asyncJobs, revokedSignal,
          closed, panicked, ctx, ipc, records, idx, iij, dpc, dec, wpc, apc,
          abatch, scenario, script, jobs, armed, fires, oneShot, callbacks,
          ticks,
          rwNet, created, interleaved>>

envVars == <<apc, abatch, scenario, script, jobs>>
bootVars == <<ready, paused, bootstrapped, activated>>
timerVars == <<armed, fires, oneShot, callbacks, ticks>>
ingressVars == <<ipc, records, idx, iij, rwNet, created, interleaved>>
dispatchVars == <<dpc, dec>>
chanVars == <<partitionInput, eventInput, interjectionInput,
              interjectionEventInput, asyncJobs, revokedSignal, closed>>

\* pw.isRevoked()
isRevoked == ~running

\* pw.canInterject()
canInterject == ready # 0

Init ==
  /\ running = TRUE
  /\ ready = 0
  /\ paused = FALSE
  /\ bootstrapped = FALSE
  /\ activated = FALSE
  /\ highestOffset = initialHighestOffset
  /\ revocationWaiter = 0
  /\ maxPending = 0
  /\ partitionInput = <<>>
  /\ eventInput = <<>>
  /\ interjectionInput = <<>>
  /\ interjectionEventInput = <<>>
  /\ asyncJobs = <<>>
  /\ revokedSignal = 0
  /\ closed = FALSE
  /\ panicked = FALSE
  /\ ctx = <<>>
  /\ ipc = "off"
  /\ records = <<>>
  /\ idx = 0
  /\ iij = "none"
  /\ dpc = "pause"
  /\ dec = 0
  /\ wpc = "none"
  /\ apc = "idle"
  /\ abatch = <<>>
  /\ scenario \in Scenarios
  /\ script = scenario.script
  /\ jobs = scenario.jobs
  /\ fires = scenario.fires
  /\ oneShot = scenario.oneShot
  /\ armed = FALSE
  /\ callbacks = 0
  /\ ticks = 0
  /\ rwNet = 0
  /\ created = 0
  /\ interleaved = 0

\* ------------------------------------------------------------------------
\* the consumer thread

\* add(records), lines 359-361: the isRevoked check; a revoked worker
\* returns at once
add ==
  /\ ~panicked
  /\ apc = "idle"
  /\ script # <<>>
  /\ script' = Tail(script)
  /\ IF isRevoked
       THEN UNCHANGED <<apc, abatch>>
       ELSE apc' = "send" /\ abatch' = Head(script)
  /\ UNCHANGED <<scenario, jobs, running, bootVars, highestOffset,
                 revocationWaiter,
                 maxPending, chanVars, panicked, ctx, ingressVars,
                 dispatchVars, wpc, timerVars>>

\* add(records), line 363: the send on partitionInput; it blocks while the
\* channel is full and panics once the channel is closed
addSend ==
  /\ ~panicked
  /\ apc = "send"
  /\ IF closed
       THEN /\ panicked' = TRUE
            /\ UNCHANGED partitionInput
       ELSE /\ Len(partitionInput) < partitionInputSize
            /\ partitionInput' = Append(partitionInput, abatch)
            /\ UNCHANGED panicked
  /\ apc' = "idle"
  /\ abatch' = <<>>
  /\ UNCHANGED <<running, bootVars, highestOffset, revocationWaiter,
                 maxPending, eventInput, interjectionInput,
                 interjectionEventInput, asyncJobs, revokedSignal, closed,
                 ctx, ingressVars, dispatchVars, wpc, scenario, script,
                 jobs, timerVars>>

\* revoke(): runStatus.Halt()
revoke ==
  /\ ~panicked
  /\ running
  /\ running' = FALSE
  /\ UNCHANGED <<bootVars, highestOffset, revocationWaiter, maxPending,
                 chanVars, panicked, ctx, ingressVars, dispatchVars, wpc,
                 envVars, timerVars>>

\* ------------------------------------------------------------------------
\* EventContext

newEventContext(r) ==
  [kind |-> "record", Offset |-> r.Offset, pooled |-> FALSE, chan |-> "none",
   taken |-> FALSE, tok |-> FALSE, st |-> "new", async |-> FALSE,
   beforeHalt |-> FALSE]

newInterjectionContext(ij) ==
  [kind |-> ij, Offset |-> 0 - 1, pooled |-> FALSE, chan |-> "none",
   taken |-> FALSE, tok |-> FALSE, st |-> "new", async |-> FALSE,
   beforeHalt |-> FALSE]

\* the context the ingress loop is scheduling: the last one created
ec == Len(ctx)

\* ------------------------------------------------------------------------
\* the ingress loop, pushRecords

\* case records := <-pw.partitionInput
pushRecordsRecords ==
  /\ ~panicked
  /\ ipc = "select"
  /\ partitionInput # <<>>
  /\ records' = Head(partitionInput)
  /\ partitionInput' = Tail(partitionInput)
  /\ ipc' = "schedule"
  /\ rwNet' = 0
  /\ created' = 0
  /\ interleaved' = 0
  /\ UNCHANGED <<running, bootVars, highestOffset, revocationWaiter,
                 maxPending, eventInput, interjectionInput,
                 interjectionEventInput, asyncJobs, revokedSignal, closed,
                 panicked, ctx, idx, iij, dispatchVars, wpc, envVars,
                 timerVars>>

\* case ij := <-pw.interjectionInput
pushRecordsInterjection ==
  /\ ~panicked
  /\ ipc = "select"
  /\ interjectionInput # <<>>
  /\ iij' = Head(interjectionInput)
  /\ interjectionInput' = Tail(interjectionInput)
  /\ ipc' = "scheduleInterjection"
  /\ UNCHANGED <<running, bootVars, highestOffset, revocationWaiter,
                 maxPending, partitionInput, eventInput,
                 interjectionEventInput, asyncJobs, revokedSignal, closed,
                 panicked, ctx, records, idx, rwNet, created, interleaved,
                 dispatchVars,
                 wpc, envVars, timerVars>>

\* pushRecords that closes its channels as soon as the worker is halted
pushRecordsDoneNoHandshake ==
  /\ ~panicked
  /\ ipc = "select"
  /\ ~running
  /\ ipc' = "close"
  /\ UNCHANGED <<running, bootVars, highestOffset, revocationWaiter,
                 maxPending, chanVars, panicked, ctx, records, idx, iij,
                 rwNet, created, interleaved, dispatchVars, wpc, envVars,
                 timerVars>>

\* case <-pw.runStatus.Done(): the loop commits to shutting down
pushRecordsDone ==
  /\ ~panicked
  /\ ipc = "select"
  /\ ~running
  /\ ipc' = "stopSignal"
  /\ UNCHANGED <<running, bootVars, highestOffset, revocationWaiter,
                 maxPending, chanVars, panicked, ctx, records, idx, iij,
                 rwNet, created, interleaved, dispatchVars, wpc, envVars,
                 timerVars>>

\* lines 382 and 401-405: both isRevoked checks, then the optimistic
\* revocationWaiter.Add(len(records))
scheduleTxnAndExecution ==
  /\ ~panicked
  /\ ipc = "schedule"
  /\ IF isRevoked
       THEN /\ ipc' = "select"
            /\ records' = <<>>
            /\ UNCHANGED <<revocationWaiter, idx, rwNet>>
       ELSE /\ revocationWaiter' = revocationWaiter + Len(records)
            /\ rwNet' = rwNet + Len(records)
            /\ idx' = 1
            /\ ipc' = "examine"
            /\ UNCHANGED records
  /\ UNCHANGED <<running, bootVars, highestOffset, maxPending, chanVars,
                 panicked, ctx, iij, created, interleaved, dispatchVars, wpc,
                 envVars,
                 timerVars>>

\* line 407: record != nil && record.Offset >= pw.highestOffset
admissible(r) == ~r.isNil /\ r.Offset >= highestOffset

\* examineRecord without the revocationWaiter.Done() of line 413
examineRecordNoDone ==
  /\ ~panicked
  /\ ipc = "examine"
  /\ IF admissible(records[idx])
       THEN /\ ctx' = Append(ctx, newEventContext(records[idx]))
            /\ created' = created + 1
            /\ ipc' = "acquire"
            /\ UNCHANGED <<revocationWaiter, rwNet>>
       ELSE /\ ipc' = "interleave"
            /\ UNCHANGED <<ctx, created, revocationWaiter, rwNet>>
  /\ UNCHANGED <<running, bootVars, highestOffset, maxPending, chanVars,
                 panicked, records, idx, iij, interleaved, dispatchVars, wpc,
                 envVars, timerVars>>

\* lines 407-408 and 412-414: examine one record of the batch; an admissible
\* one gets its EventContext, any other is dropped with revocationWaiter.Done()
examineRecord ==
  /\ ~panicked
  /\ ipc = "examine"
  /\ IF admissible(records[idx])
       THEN /\ ctx' = Append(ctx, newEventContext(records[idx]))
            /\ created' = created + 1
            /\ ipc' = "acquire"
            /\ UNCHANGED <<revocationWaiter, rwNet>>
       ELSE /\ revocationWaiter' = revocationWaiter - 1
            /\ rwNet' = rwNet - 1
            /\ ipc' = "interleave"
            /\ UNCHANGED <<ctx, created>>
  /\ UNCHANGED <<running, bootVars, highestOffset, maxPending, chanVars,
                 panicked, records, idx, iij, interleaved, dispatchVars, wpc,
                 envVars, timerVars>>

\* acquireMaxPending on a semaphore that never blocks
acquireMaxPendingUnbounded ==
  /\ ~panicked
  /\ ipc \in {"acquire", "acquireInterjection"}
  /\ maxPending' = maxPending + 1
  /\ ctx' = [ctx EXCEPT ![ec].tok = TRUE, ![ec].pooled = TRUE]
  /\ ipc' = IF ipc = "acquire" THEN "send" ELSE "sendInterjection"
  /\ UNCHANGED <<running, bootVars, highestOffset, revocationWaiter,
                 chanVars, panicked, records, idx, iij, rwNet, created,
                 interleaved,
                 dispatchVars, wpc, envVars, timerVars>>

\* lines 409-410 and 438-439: pw.maxPending <- struct{}{} blocks while the
\* semaphore is full; then eosProducer.addEventContext(ec)
acquireMaxPending ==
  /\ ~panicked
  /\ ipc \in {"acquire", "acquireInterjection"}
  /\ maxPending < MaxPendingItems
  /\ maxPending' = maxPending + 1
  /\ ctx' = [ctx EXCEPT ![ec].tok = TRUE, ![ec].pooled = TRUE]
  /\ ipc' = IF ipc = "acquire" THEN "send" ELSE "sendInterjection"
  /\ UNCHANGED <<running, bootVars, highestOffset, revocationWaiter,
                 chanVars, panicked, records, idx, iij, rwNet, created,
                 interleaved,
                 dispatchVars, wpc, envVars, timerVars>>

\* line 411: pw.eventInput <- ec
sendEventInput ==
  /\ ~panicked
  /\ ipc = "send"
  /\ Len(eventInput) < recordsInputSize
  /\ eventInput' = Append(eventInput, ec)
  /\ ipc' = "interleave"
  /\ UNCHANGED <<running, bootVars, highestOffset, revocationWaiter,
                 maxPending, partitionInput, interjectionInput,
                 interjectionEventInput, asyncJobs, revokedSignal, closed,
                 panicked, ctx, records, idx, iij, rwNet, created, interleaved,
                 dispatchVars, wpc, envVars, timerVars>>

\* where the ingress loop goes when the record at idx (and the interjection
\* interleaved after it) is done: the next record, or back to the select
afterRecord ==
  IF records = <<>>
    THEN [ipc |-> "select", idx |-> 0, records |-> <<>>]
    ELSE IF idx < Len(records)
           THEN [ipc |-> "examine", idx |-> idx + 1, records |-> records]
           ELSE [ipc |-> "select", idx |-> 0, records |-> <<>>]

\* interleaveInterjection that reads nothing
interleaveInterjectionSkipped ==
  /\ ~panicked
  /\ ipc = "interleave"
  /\ ipc' = afterRecord.ipc
  /\ idx' = afterRecord.idx
  /\ records' = afterRecord.records
  /\ UNCHANGED <<running, bootVars, highestOffset, revocationWaiter,
                 maxPending, chanVars, panicked, ctx, iij, rwNet, created,
                 interleaved, dispatchVars, wpc, envVars, timerVars>>

\* interleaveInterjection: a non-blocking read of interjectionInput
interleaveInterjection ==
  /\ ~panicked
  /\ ipc = "interleave"
  /\ IF interjectionInput # <<>>
       THEN /\ iij' = Head(interjectionInput)
            /\ interjectionInput' = Tail(interjectionInput)
            /\ interleaved' = interleaved + 1
            /\ ipc' = "scheduleInterjection"
            /\ UNCHANGED <<records, idx>>
       ELSE /\ ipc' = afterRecord.ipc
            /\ idx' = afterRecord.idx
            /\ records' = afterRecord.records
            /\ UNCHANGED <<iij, interjectionInput, interleaved>>
  /\ UNCHANGED <<running, bootVars, highestOffset, revocationWaiter,
                 maxPending, partitionInput, eventInput,
                 interjectionEventInput, asyncJobs, revokedSignal, closed,
                 panicked, ctx, rwNet, created, dispatchVars, wpc, envVars,
                 timerVars>>

\* scheduleInterjection, lines 430-437: a revoked worker only runs the
\* callback; otherwise revocationWaiter.Add(1) and a new context
scheduleInterjection ==
  /\ ~panicked
  /\ ipc = "scheduleInterjection"
  /\ IF isRevoked
       THEN /\ callbacks' = IF hasCallback(iij) THEN callbacks + 1
                                                ELSE callbacks
            /\ ipc' = afterRecord.ipc
            /\ idx' = afterRecord.idx
            /\ records' = afterRecord.records
            /\ iij' = "none"
            /\ UNCHANGED <<revocationWaiter, ctx>>
       ELSE /\ revocationWaiter' = revocationWaiter + 1
            /\ ctx' = Append(ctx, newInterjectionContext(iij))
            /\ ipc' = "acquireInterjection"
            /\ UNCHANGED <<callbacks, idx, records, iij>>
  /\ UNCHANGED <<running, bootVars, highestOffset, maxPending, chanVars,
                 panicked, rwNet, created, interleaved, dispatchVars, wpc,
                 envVars, armed,
                 fires, oneShot, ticks>>

\* line 440: pw.interjectionEventInput <- ec
sendInterjectionEventInput ==
  /\ ~panicked
  /\ ipc = "sendInterjection"
  /\ Len(interjectionEventInput) < interjectionEventInputSize
  /\ interjectionEventInput' = Append(interjectionEventInput, ec)
  /\ ipc' = afterRecord.ipc
  /\ idx' = afterRecord.idx
  /\ records' = afterRecord.records
  /\ iij' = "none"
  /\ UNCHANGED <<running, bootVars, highestOffset, revocationWaiter,
                 maxPending, partitionInput, eventInput, interjectionInput,
                 asyncJobs, revokedSignal, closed, panicked, ctx, rwNet,
                 created, interleaved, dispatchVars, wpc, envVars, timerVars>>

\* lines 391-395: close(partitionInput), close(eventInput), close(asyncJobs)
\* and return
pushRecordsClose ==
  /\ ~panicked
  /\ ipc = "close"
  /\ closed' = TRUE
  /\ ipc' = "done"
  /\ UNCHANGED <<running, bootVars, highestOffset, revocationWaiter,
                 maxPending, partitionInput, eventInput, interjectionInput,
                 interjectionEventInput, asyncJobs, revokedSignal, panicked,
                 ctx, records, idx, iij, rwNet, created, interleaved,
                 dispatchVars, wpc,
                 envVars, timerVars>>

\* ------------------------------------------------------------------------
\* the dispatch loop, work

\* line 452: PauseFetchPartitions
workPause ==
  /\ ~panicked
  /\ dpc = "pause"
  /\ paused' = TRUE
  /\ dpc' = "waiter"
  /\ UNCHANGED <<running, ready, bootstrapped, activated, highestOffset,
                 revocationWaiter, maxPending, chanVars, panicked, ctx,
                 ingressVars, dec, wpc, envVars, timerVars>>

\* line 454: waiter() returns once the state store is bootstrapped
workWaiter ==
  /\ ~panicked
  /\ dpc = "waiter"
  /\ bootstrapped' = TRUE
  /\ dpc' = "resume"
  /\ UNCHANGED <<running, ready, paused, activated, highestOffset,
                 revocationWaiter, maxPending, chanVars, panicked, ctx,
                 ingressVars, dec, wpc, envVars, timerVars>>

\* work that leaves the partition paused
workResumeSkipped ==
  /\ ~panicked
  /\ dpc = "resume"
  /\ dpc' = "go"
  /\ UNCHANGED <<running, ready, paused, bootstrapped, activated,
                 highestOffset, revocationWaiter, maxPending, chanVars,
                 panicked, ctx, ingressVars, dec, wpc, envVars, timerVars>>

\* line 456: ResumeFetchPartitions
workResume ==
  /\ ~panicked
  /\ dpc = "resume"
  /\ paused' = FALSE
  /\ dpc' = "go"
  /\ UNCHANGED <<running, ready, bootstrapped, activated, highestOffset,
                 revocationWaiter, maxPending, chanVars, panicked, ctx,
                 ingressVars, dec, wpc, envVars, timerVars>>

\* line 458: go pw.pushRecords()
workGo ==
  /\ ~panicked
  /\ dpc = "go"
  /\ ipc' = "select"
  /\ dpc' = "ready"
  /\ UNCHANGED <<running, bootVars, highestOffset, revocationWaiter,
                 maxPending, chanVars, panicked, ctx, records, idx, iij,
                 rwNet, created, interleaved, dec, wpc, envVars, timerVars>>

\* line 459: atomic.StoreInt64(&pw.ready, 1)
workReady ==
  /\ ~panicked
  /\ dpc = "ready"
  /\ ready' = 1
  /\ dpc' = "tick"
  /\ UNCHANGED <<running, paused, bootstrapped, activated, highestOffset,
                 revocationWaiter, maxPending, chanVars, panicked, ctx,
                 ingressVars, dec, wpc, envVars, timerVars>>

\* interjection.tick(): arm the timer
tick(ij) == IF ij = "P" THEN TRUE ELSE armed

\* interjection.cancel(): disarm the timer
cancel == FALSE

\* lines 461-466: init and tick every interjection, then OnPartitionActivated
workActivated ==
  /\ ~panicked
  /\ dpc = "tick"
  /\ armed' = tick("P")
  /\ ticks' = ticks + 1
  /\ activated' = TRUE
  /\ dpc' = "select"
  /\ UNCHANGED <<running, ready, paused, bootstrapped, highestOffset,
                 revocationWaiter, maxPending, chanVars, panicked, ctx,
                 ingressVars, dec, wpc, envVars, fires, oneShot, callbacks>>

\* case ec := <-pw.eventInput, and handleEvent up to assignProducer
workEventInput ==
  /\ ~panicked
  /\ dpc = "select"
  /\ eventInput # <<>>
  /\ dec' = Head(eventInput)
  /\ eventInput' = Tail(eventInput)
  /\ dpc' = "assignProducer"
  /\ UNCHANGED <<running, bootVars, highestOffset, revocationWaiter,
                 maxPending, partitionInput, interjectionInput,
                 interjectionEventInput, asyncJobs, revokedSignal, closed,
                 panicked, ctx, ingressVars, wpc, envVars, timerVars>>

\* case ec := <-pw.interjectionEventInput, and handleInterjection up to
\* assignProducer
workInterjectionEventInput ==
  /\ ~panicked
  /\ dpc = "select"
  /\ interjectionEventInput # <<>>
  /\ dec' = Head(interjectionEventInput)
  /\ interjectionEventInput' = Tail(interjectionEventInput)
  /\ dpc' = "assignProducer"
  /\ UNCHANGED <<running, bootVars, highestOffset, revocationWaiter,
                 maxPending, partitionInput, eventInput, interjectionInput,
                 asyncJobs, revokedSignal, closed, panicked, ctx, ingressVars,
                 wpc, envVars, timerVars>>

\* EventContext.complete() followed by <-pw.maxPending
completeAndRelease(c, i) == [c EXCEPT ![i].st = "complete", ![i].tok = FALSE]

\* a handler or interjector returned without completing the context: the
\* context keeps its token; it remembers whether the worker was still
\* running
leavePending(c, i) ==
  [c EXCEPT ![i].st = "pending", ![i].beforeHalt = running]

\* <-pw.maxPending for an abandoned context
abandonAndRelease(c, i) == [c EXCEPT ![i].st = "abandoned", ![i].tok = FALSE]

\* job.ctx.complete() followed by <-pw.maxPending, in processAsyncJob
asyncCompleteAndRelease(c, i) ==
  [completeAndRelease(c, i) EXCEPT ![i].async = TRUE]

\* processAsyncJob that releases a token whatever the finalizer returns
processAsyncJobAnyResult ==
  /\ ~panicked
  /\ asyncJobs # <<>>
  /\ asyncJobs' = Tail(asyncJobs)
  /\ maxPending > 0
  /\ ctx' = asyncCompleteAndRelease(ctx, Head(asyncJobs).ctx)
  /\ maxPending' = maxPending - 1
  /\ UNCHANGED <<running, bootVars, highestOffset, revocationWaiter,
                 partitionInput, eventInput, interjectionInput,
                 interjectionEventInput, revokedSignal, closed, panicked,
                 ingressVars, dispatchVars, wpc, envVars, timerVars>>

\* processAsyncJob: a Complete finalizer completes the context and releases
\* one token; any other result leaves it pending
processAsyncJob ==
  /\ ~panicked
  /\ asyncJobs # <<>>
  /\ asyncJobs' = Tail(asyncJobs)
  /\ IF Head(asyncJobs).fin = Complete
       THEN /\ maxPending > 0
            /\ ctx' = asyncCompleteAndRelease(ctx, Head(asyncJobs).ctx)
            /\ maxPending' = maxPending - 1
       ELSE UNCHANGED <<ctx, maxPending>>
  /\ UNCHANGED <<running, bootVars, highestOffset, revocationWaiter,
                 partitionInput, eventInput, interjectionInput,
                 interjectionEventInput, revokedSignal, closed, panicked,
                 ingressVars, dispatchVars, wpc, envVars, timerVars>>

\* case job := <-pw.asyncCompleter.asyncJobs of the dispatch loop's select
workAsyncJob ==
  /\ dpc = "select"
  /\ processAsyncJob

\* case <-pw.stopSignal, with the send of line 389: the two loops meet on the
\* unbuffered channel; the dispatch loop cancels the interjections and
\* spawns the drain watcher
workStopSignal ==
  /\ ~panicked
  /\ dpc = "select"
  /\ ipc = "stopSignal"
  /\ ipc' = "stopped"
  /\ armed' = cancel
  /\ wpc' = "wait"
  /\ UNCHANGED <<running, bootVars, highestOffset, revocationWaiter,
                 maxPending, chanVars, panicked, ctx, records, idx, iij,
                 rwNet, created, interleaved, dispatchVars, envVars, fires,
                 oneShot,
                 callbacks, ticks>>

\* case <-pw.revokedSignal
workRevokedSignal ==
  /\ ~panicked
  /\ dpc = "select"
  /\ revokedSignal > 0
  /\ revokedSignal' = revokedSignal - 1
  /\ dpc' = "stopped"
  /\ UNCHANGED <<running, bootVars, highestOffset, revocationWaiter,
                 maxPending, partitionInput, eventInput, interjectionInput,
                 interjectionEventInput, asyncJobs, closed, panicked, ctx,
                 ingressVars, dec, wpc, envVars, timerVars>>

\* pw.stopped <- struct{}{} of line 481 with the receive of line 390; the
\* dispatch loop returns
workStopped ==
  /\ ~panicked
  /\ dpc = "stopped"
  /\ ipc = "stopped"
  /\ dpc' = "done"
  /\ ipc' = "close"
  /\ UNCHANGED <<running, bootVars, highestOffset, revocationWaiter,
                 maxPending, chanVars, panicked, ctx, records, idx, iij,
                 rwNet, created, interleaved, dec, wpc, envVars, timerVars>>

\* assignProducer, case ec.producer = <-ec.producerChan
assignProducer ==
  /\ ~panicked
  /\ dpc = "assignProducer"
  /\ ctx[dec].chan # "none"
  /\ ctx' = [ctx EXCEPT ![dec].taken = TRUE]
  /\ dpc' = "handle"
  /\ UNCHANGED <<running, bootVars, highestOffset, revocationWaiter,
                 maxPending, chanVars, panicked, ingressVars, dec, wpc,
                 envVars, timerVars>>

\* assignProducer, case job := <-pw.asyncCompleter.asyncJobs
assignProducerAsyncJob ==
  /\ dpc = "assignProducer"
  /\ processAsyncJob

\* forwardToEventSource that advances highestOffset before it looks at the
\* producer
forwardToEventSourceOffsetFirst(result) ==
  /\ ~panicked
  /\ dpc = "handle"
  /\ ctx[dec].kind = "record"
  /\ highestOffset' = ctx[dec].Offset + 1
  /\ IF ctx[dec].chan = "nil"
       THEN /\ maxPending > 0
            /\ maxPending' = maxPending - 1
            /\ ctx' = abandonAndRelease(ctx, dec)
       ELSE IF result = Complete
              THEN /\ maxPending > 0
                   /\ ctx' = completeAndRelease(ctx, dec)
                   /\ maxPending' = maxPending - 1
              ELSE /\ ctx' = leavePending(ctx, dec)
                   /\ UNCHANGED maxPending
  /\ dpc' = "select"
  /\ dec' = 0
  /\ UNCHANGED <<running, bootVars, revocationWaiter, chanVars, panicked,
                 ingressVars, wpc, envVars, timerVars>>

\* forwardToEventSource after assignProducer: a nil producer releases the
\* token; otherwise highestOffset = offset + 1 and the user's handler runs
forwardToEventSource(result) ==
  /\ ~panicked
  /\ dpc = "handle"
  /\ ctx[dec].kind = "record"
  /\ IF ctx[dec].chan = "nil"
       THEN /\ maxPending > 0
            /\ maxPending' = maxPending - 1
            /\ ctx' = abandonAndRelease(ctx, dec)
            /\ UNCHANGED highestOffset
       ELSE /\ highestOffset' = ctx[dec].Offset + 1
            /\ IF result = Complete
                 THEN /\ maxPending > 0
                      /\ ctx' = completeAndRelease(ctx, dec)
                      /\ maxPending' = maxPending - 1
                 ELSE /\ ctx' = leavePending(ctx, dec)
                      /\ UNCHANGED maxPending
  /\ dpc' = "select"
  /\ dec' = 0
  /\ UNCHANGED <<running, bootVars, revocationWaiter, chanVars, panicked,
                 ingressVars, wpc, envVars, timerVars>>

\* inter.interject(ec) runs the interjector; the interjector of a one-shot
\* interjection reports to its caller through the callback when it has run
interjector(ij) == IF hasCallback(ij) THEN callbacks + 1 ELSE callbacks

\* handleInterjection after assignProducer: a nil producer releases the token
\* and runs the callback; otherwise the interjector runs, and a Complete
\* result completes, releases and re-arms the timer
handleInterjection(result) ==
  /\ ~panicked
  /\ dpc = "handle"
  /\ ctx[dec].kind # "record"
  /\ IF ctx[dec].chan = "nil"
       THEN /\ maxPending > 0
            /\ maxPending' = maxPending - 1
            /\ ctx' = abandonAndRelease(ctx, dec)
            /\ callbacks' = IF hasCallback(ctx[dec].kind) THEN callbacks + 1
                                                          ELSE callbacks
            /\ UNCHANGED <<armed, ticks>>
       ELSE /\ callbacks' = interjector(ctx[dec].kind)
            /\ IF result = Complete
                 THEN /\ maxPending > 0
                      /\ ctx' = completeAndRelease(ctx, dec)
                      /\ maxPending' = maxPending - 1
                      /\ armed' = tick(ctx[dec].kind)
                      /\ ticks' = ticks + 1
                 ELSE /\ ctx' = leavePending(ctx, dec)
                      /\ UNCHANGED <<maxPending, armed, ticks>>
  /\ dpc' = "select"
  /\ dec' = 0
  /\ UNCHANGED <<running, bootVars, highestOffset, revocationWaiter,
                 chanVars, panicked, ingressVars, wpc, envVars, fires,
                 oneShot>>

\* ------------------------------------------------------------------------
\* the drain watcher, waitForRevocation

\* waitForRevocation that signals without waiting for the counter
waitForRevocationNoWait ==
  /\ ~panicked
  /\ wpc = "wait"
  /\ wpc' = "signal"
  /\ UNCHANGED <<running, bootVars, highestOffset, revocationWaiter,
                 maxPending, chanVars, panicked, ctx, ingressVars,
                 dispatchVars, envVars, timerVars>>

\* pw.revocationWaiter.Wait() returns when the counter is zero
waitForRevocation ==
  /\ ~panicked
  /\ wpc = "wait"
  /\ revocationWaiter = 0
  /\ wpc' = "signal"
  /\ UNCHANGED <<running, bootVars, highestOffset, revocationWaiter,
                 maxPending, chanVars, panicked, ctx, ingressVars,
                 dispatchVars, envVars, timerVars>>

\* pw.revokedSignal <- struct{}{}, a channel of capacity 1
sendRevokedSignal ==
  /\ ~panicked
  /\ wpc = "signal"
  /\ revokedSignal < 1
  /\ revokedSignal' = revokedSignal + 1
  /\ wpc' = "done"
  /\ UNCHANGED <<running, bootVars, highestOffset, revocationWaiter,
                 maxPending, partitionInput, eventInput, interjectionInput,
                 interjectionEventInput, asyncJobs, closed, panicked, ctx,
                 ingressVars, dispatchVars, envVars, timerVars>>

\* ------------------------------------------------------------------------
\* the producer pool

\* the context the pool serves next: the oldest one it was given that has
\* no value on its producerChan yet (0 when there is none)
poolNext ==
  IF \E i \in 1..Len(ctx) : ctx[i].pooled /\ ctx[i].chan = "none"
    THEN CHOOSE i \in 1..Len(ctx) :
           /\ ctx[i].pooled /\ ctx[i].chan = "none"
           /\ \A j \in 1..(i - 1) : ~(ctx[j].pooled /\ ctx[j].chan = "none")
    ELSE 0

\* the values the pool may write: a producer slot, or nil once the
\* partition is revoked
poolValues == IF running THEN {"slot"} ELSE {"slot", "nil"}

\* the contexts holding a producer slot: the pool reclaims the slot of a
\* context when the context is complete
slotHolders ==
  {i \in 1..Len(ctx) : ctx[i].chan = "slot" /\ ctx[i].st \in {"new", "pending"}}

\* the pool writes one value to ec.producerChan and accounts for the
\* context in revocationWaiter; a slot is written when one is free
poolDeliver(v) ==
  /\ ~panicked
  /\ poolNext # 0
  /\ v \in poolValues
  /\ (v = "slot") => (Cardinality(slotHolders) < scenario.slots)
  /\ ctx' = [ctx EXCEPT ![poolNext].chan = v]
  /\ revocationWaiter' = revocationWaiter - 1
  /\ UNCHANGED <<running, bootVars, highestOffset, maxPending, chanVars,
                 panicked, ingressVars, dispatchVars, wpc, envVars,
                 timerVars>>

\* ------------------------------------------------------------------------
\* the user's asynchronous completion

\* the contexts a job is outstanding for
jobContexts == {asyncJobs[k].ctx : k \in 1..Len(asyncJobs)}

\* the dispatch loop waits in assignProducer for a producerChan that holds
\* no value yet
waiting == dpc = "assignProducer" /\ ctx[dec].chan = "none"

\* AsyncComplete(job): ac.asyncJobs <- j, for a context whose handler did
\* not return Complete; the send panics once asyncJobs is closed. A job
\* remembers whether it was enqueued while the dispatch loop waited in
\* assignProducer
AsyncComplete(i, fin) ==
  /\ ~panicked
  /\ i \in 1..Len(ctx)
  /\ ctx[i].st = "pending"
  /\ i \notin jobContexts
  /\ jobs > 0
  /\ jobs' = jobs - 1
  /\ IF closed
       THEN /\ panicked' = TRUE
            /\ UNCHANGED asyncJobs
       ELSE /\ Len(asyncJobs) < asyncSize
            /\ asyncJobs' = Append(asyncJobs,
                                   [ctx |-> i, fin |-> fin,
                                    wait |-> waiting])
            /\ UNCHANGED panicked
  /\ UNCHANGED <<running, bootVars, highestOffset, revocationWaiter,
                 maxPending, partitionInput, eventInput, interjectionInput,
                 interjectionEventInput, revokedSignal, closed, ctx,
                 ingressVars, dispatchVars, wpc, apc, abatch, scenario,
                 script, timerVars>>

\* the user's code completes one of the pending contexts
asyncCompletion ==
  \E i \in 1..Len(ctx), fin \in ExecutionState : AsyncComplete(i, fin)

\* ------------------------------------------------------------------------
\* the interjection timers

\* the armed periodic timer fires and enqueues itself on interjectionInput
fire ==
  /\ ~panicked
  /\ armed
  /\ fires > 0
  /\ Len(interjectionInput) < interjectionInputSize
  /\ interjectionInput' = Append(interjectionInput, "P")
  /\ armed' = FALSE
  /\ fires' = fires - 1
  /\ UNCHANGED <<running, bootVars, highestOffset, revocationWaiter,
                 maxPending, partitionInput, eventInput,
                 interjectionEventInput, asyncJobs, revokedSignal, closed,
                 panicked, ctx, ingressVars, dispatchVars, wpc, envVars,
                 oneShot, callbacks, ticks>>

\* a caller enqueues the one-shot interjection once the worker can interject
interject ==
  /\ ~panicked
  /\ canInterject
  /\ oneShot = "idle"
  /\ Len(interjectionInput) < interjectionInputSize
  /\ interjectionInput' = Append(interjectionInput, "O")
  /\ oneShot' = IF running THEN "sent" ELSE "late"
  /\ UNCHANGED <<running, bootVars, highestOffset, revocationWaiter,
                 maxPending, partitionInput, eventInput,
                 interjectionEventInput, asyncJobs, revokedSignal, closed,
                 panicked, ctx, ingressVars, dispatchVars, wpc, envVars,
                 armed, fires, callbacks, ticks>>

\* ------------------------------------------------------------------------
\* the specification

Ingress ==
  \/ pushRecordsRecords
  \/ pushRecordsInterjection
  \/ pushRecordsDone
  \/ scheduleTxnAndExecution
  \/ examineRecord
  \/ acquireMaxPending
  \/ sendEventInput
  \/ interleaveInterjection
  \/ scheduleInterjection
  \/ sendInterjectionEventInput
  \/ pushRecordsClose

Dispatch ==
  \/ workPause
  \/ workWaiter
  \/ workResume
  \/ workGo
  \/ workReady
  \/ workActivated
  \/ workEventInput
  \/ workInterjectionEventInput
  \/ workAsyncJob
  \/ workStopSignal
  \/ workRevokedSignal
  \/ workStopped
  \/ assignProducer
  \/ assignProducerAsyncJob
  \/ \E result \in ExecutionState : forwardToEventSource(result)
  \/ \E result \in ExecutionState : handleInterjection(result)

Watcher ==
  \/ waitForRevocation
  \/ sendRevokedSignal

Pool == \E v \in {"slot", "nil"} : poolDeliver(v)

Environment ==
  \/ add
  \/ addSend
  \/ revoke
  \/ asyncCompletion
  \/ fire
  \/ interject

Next == Ingress \/ Dispatch \/ Watcher \/ Pool \/ Environment

Spec == Init /\ [][Next]_vars

\* the scheduler runs every goroutine of the worker that can take a step,
\* and the producer pool serves every context it was given; nothing is
\* assumed of the consumer, the user's async completions or the timers
Fairness ==
  /\ WF_vars(Ingress)
  /\ WF_vars(Dispatch)
  /\ WF_vars(Watcher)
  /\ WF_vars(Pool)

FairSpec == Init /\ [][Next]_vars /\ Fairness

\* both loops of the worker have returned
Terminated == ipc = "done" /\ dpc = "done"

\* ------------------------------------------------------------------------
\* what the properties speak of

Range(q) == {q[k] : k \in 1..Len(q)}

Contexts == 1..Len(ctx)
RecordContexts == {i \in Contexts : ctx[i].kind = "record"}

\* the offsets of the record contexts handed to eosProducer.addEventContext,
\* in the order of the calls
RECURSIVE admittedOffsets(_)
admittedOffsets(n) ==
  IF n = 0 THEN <<>>
  ELSE IF ctx[n].kind = "record" /\ ctx[n].pooled
         THEN Append(admittedOffsets(n - 1), ctx[n].Offset)
         ELSE admittedOffsets(n - 1)

StrictlyIncreasing(q) == \A j, k \in 1..Len(q) : j < k => q[j] < q[k]

\* the contexts holding a maxPending token
tokensHeld == {i \in Contexts : ctx[i].tok}

\* the record contexts that have entered eventInput
enteredEventInput ==
  {i \in RecordContexts : i \in Range(eventInput) \/ i = dec \/ ctx[i].taken}

\* the dispatch loop has received stopSignal
stopSignalReceived == ipc \in {"stopped", "close", "done"}

\* the records of the batch in hand that the ingress loop has yet to examine
remaining ==
  IF records = <<>> \/ ipc = "schedule" THEN 0
  ELSE IF ipc = "examine" THEN Len(records) - idx + 1
  ELSE Len(records) - idx

\* ------------------------------------------------------------------------
\* C1: after revoke() the worker terminates: both loops return and the
\* ingress loop has closed partitionInput, eventInput and asyncJobs,
\* whatever the ingress loop was doing when the worker was halted
C1_RevokeTerminates == (~running) ~> ((Terminated /\ closed) \/ panicked)

\* C2: once the worker is halted no EventContext is created, no maxPending
\* token is acquired, nothing is handed to the producer pool, and an add()
\* called after the halt enqueues nothing
C2_NoContextAfterHalt ==
  [][(~running) =>
       /\ Len(ctx') = Len(ctx)
       /\ maxPending' <= maxPending
       /\ \A i \in Contexts : ctx'[i].pooled = ctx[i].pooled
       /\ (apc = "idle" => apc' = "idle")]_vars

\* C3: the offsets handed to the producer pool are strictly increasing, and
\* the dispatch loop takes the record contexts in that same order
C3_StrictOffsetOrder ==
  /\ StrictlyIncreasing(admittedOffsets(Len(ctx)))
  /\ \A i, j \in RecordContexts : (i < j /\ ctx[j].taken) => ctx[i].taken

\* C4: highestOffset never decreases
C4_HighestOffsetMonotonic == [][highestOffset' >= highestOffset]_vars

\* the batch of the redelivery run
redelivered == <<Rec(0), Rec(1), Rec(0), Rec(1)>>

\* the redelivered batch has been scheduled to its end, every handler
\* returned Complete with a producer slot, and nothing else happened
redeliveryDone ==
  /\ scenario.script = <<redelivered>>
  /\ running
  /\ script = <<>> /\ apc = "idle" /\ partitionInput = <<>>
  /\ ipc = "select"
  /\ jobs = scenario.jobs
  /\ Contexts # {}
  /\ \A i \in Contexts : ctx[i].st = "complete" /\ ctx[i].chan = "slot"

\* C5: a batch that redelivers a run of offsets admits each distinct offset
\* once, ends with highestOffset = largest offset + 1 and raises
\* revocationWaiter by the number of distinct offsets
C5_DuplicateSuppression ==
  redeliveryDone =>
    /\ Len(admittedOffsets(Len(ctx))) = 2
    /\ Range(admittedOffsets(Len(ctx))) = {0, 1}
    /\ highestOffset = 2
    /\ rwNet = 2

\* C6: a nil record, or one whose offset is below highestOffset when it is
\* examined, is dropped: no context, no token, nothing for the pool or
\* eventInput, one revocationWaiter.Done(); over a batch the ingress loop's
\* net change of revocationWaiter is the number of contexts it created
C6_StaleDropped ==
  [][/\ (ipc = "examine" /\ ipc' # "examine" /\ ~admissible(records[idx])) =>
          /\ ctx' = ctx
          /\ maxPending' = maxPending
          /\ eventInput' = eventInput
          /\ revocationWaiter' = revocationWaiter - 1
          /\ ipc' = "interleave"
     /\ rwNet' = created' + remaining']_vars

\* a redelivered (non-nil) record has just been dropped
C6_Witness ==
  /\ ipc = "interleave"
  /\ idx = 2
  /\ ~records[idx].isNil
  /\ records[idx].Offset < highestOffset
  /\ created = 0
  /\ rwNet = Len(records) - 2

\* every context created so far is a record whose handler returned
\* Incomplete, none was completed, and the ingress loop is at the next
\* token acquisition with all tokens out
saturated ==
  /\ ipc = "acquire"
  /\ maxPending = MaxPendingItems
  /\ jobs = scenario.jobs
  /\ \A i \in Contexts \ {ec} : ctx[i].kind = "record" /\ ctx[i].st = "pending"

\* C7: the tokens outstanding never exceed maxPendingItems; when all are
\* held by Incomplete contexts exactly maxPendingItems contexts have entered
\* eventInput and the ingress loop is blocked; add blocks on a full
\* partitionInput
C7_Backpressure ==
  /\ Cardinality(tokensHeld) = maxPending
  /\ maxPending <= MaxPendingItems
  /\ saturated =>
       /\ Cardinality(enteredEventInput) = MaxPendingItems
       /\ ~ENABLED acquireMaxPending
  /\ Len(partitionInput) <= partitionInputSize
  /\ (apc = "send" /\ ~closed /\ Len(partitionInput) = partitionInputSize)
       => ~ENABLED addSend

\* all tokens are held by Incomplete contexts, the ingress loop waits for a
\* token and add waits on the full partitionInput
C7_Witness ==
  /\ saturated
  /\ apc = "send"
  /\ Len(partitionInput) = partitionInputSize

\* C8: when the worker has terminated, every pending context having been
\* completed and the pool having served every context, no token is held
\* and no context is left in eventInput or interjectionEventInput
C8_TokensBalanced ==
  (/\ dpc = "done"
   /\ \A i \in Contexts : ctx[i].st # "pending" /\ ctx[i].chan # "none")
  => /\ tokensHeld = {}
     /\ maxPending = 0
     /\ eventInput = <<>>
     /\ interjectionEventInput = <<>>

\* C9: when revokedSignal is emitted every context created has a value on
\* its producerChan and has been taken by the dispatch loop in
\* assignProducer
C9_DrainLosesNothing ==
  (wpc = "done") =>
    \A i \in Contexts : ctx[i].chan # "none" /\ ctx[i].taken

\* C10: revokedSignal is sent only with revocationWaiter at zero and after
\* the dispatch loop received stopSignal; the counter is never negative and
\* never rises once the drain watcher waits
C10_ZeroBeforeRevokedSignal ==
  [][/\ (revokedSignal' > revokedSignal) =>
          (revocationWaiter = 0 /\ stopSignalReceived)
     /\ (wpc # "none") => (revocationWaiter' <= revocationWaiter)
     /\ (wpc = "done") => (revocationWaiter' = 0)
     /\ revocationWaiter' >= 0]_vars

\* revokedSignal was sent after contexts were created and drained
C10_Witness ==
  /\ wpc = "done"
  /\ Len(ctx) >= 2
  /\ revocationWaiter = 0

\* ------------------------------------------------------------------------
\* C11: the callback of a one-shot interjection enqueued on a running worker
\* is invoked exactly once: never twice, and once by the time both loops of
\* the worker have returned, wherever the halt found the interjection
C11_CallbackExactlyOnce ==
  /\ callbacks <= 1
  /\ (Terminated /\ oneShot = "sent") => callbacks = 1

\* ------------------------------------------------------------------------
\* the dispatch loop has still to pause the partition, to wait for the
\* bootstrap, to resume the partition
beforePause == dpc = "pause"
beforeWaiter == dpc = "waiter"
beforeResume == dpc = "resume"

\* C12: the worker bootstraps in the order pause, waiter, resume, ready:
\* canInterject holds only once waiter() has returned and the partition is
\* resumed, and until waiter() has returned the ingress loop is not started,
\* takes no record from partitionInput, no EventContext exists and
\* OnPartitionActivated has not run
C12_ReadyAfterBootstrap ==
  /\ canInterject => (bootstrapped /\ ~paused)
  /\ beforePause => (~paused /\ ~bootstrapped /\ ~canInterject)
  /\ beforeWaiter => (paused /\ ~bootstrapped /\ ~canInterject)
  /\ beforeResume => (paused /\ bootstrapped /\ ~canInterject)
  /\ ~(beforePause \/ beforeWaiter \/ beforeResume) =>
       (~paused /\ bootstrapped)
  /\ ~bootstrapped =>
       /\ ipc = "off"
       /\ records = <<>>
       /\ ctx = <<>>
       /\ ~activated

\* the bootstrapped, resumed and activated worker is ready and its dispatch
\* loop handles a record
C12_Witness ==
  /\ canInterject
  /\ bootstrapped /\ ~paused /\ activated
  /\ dpc = "handle"
  /\ ctx[dec].kind = "record"

\* ------------------------------------------------------------------------
\* the dispatch loop takes a job from asyncJobs in this step
asyncJobTaken == asyncJobs # <<>> /\ asyncJobs' = Tail(asyncJobs)

\* C13: a job whose finalizer returns Complete marks its context complete
\* and releases exactly one token, after which an ingress loop blocked at
\* the token acquisition can proceed; a finalizer returning anything else
\* changes no context, releases no token and leaves a blocked ingress loop
\* blocked
C13_AsyncCompletionReleases ==
  [][asyncJobTaken =>
       IF Head(asyncJobs).fin = Complete
         THEN /\ ctx'[Head(asyncJobs).ctx].st = "complete"
              /\ ~ctx'[Head(asyncJobs).ctx].tok
              /\ \A i \in Contexts \ {Head(asyncJobs).ctx} : ctx'[i] = ctx[i]
              /\ maxPending' = maxPending - 1
              /\ (ipc = "acquire") => (ENABLED acquireMaxPending)'
         ELSE /\ ctx' = ctx
              /\ maxPending' = maxPending
              /\ (ipc = "acquire" /\ maxPending = MaxPendingItems)
                    => ~(ENABLED acquireMaxPending)']_vars

\* the redelivered batch put a third context at the token acquisition while
\* the first two held both tokens; both handlers returned Incomplete, the
\* second context was completed by an async job and the third context has
\* got its token
C13_Witness ==
  /\ scenario.script = <<redelivered>>
  /\ Len(ctx) = 3
  /\ ctx[1].st = "pending" /\ ctx[1].tok
  /\ ctx[2].st = "complete" /\ ctx[2].async
  /\ ctx[3].Offset = 0 /\ ctx[3].tok
  /\ ipc = "send"

\* ------------------------------------------------------------------------
\* the steps of the shutdown handshake
stopSignalStep == ipc = "stopSignal" /\ ipc' = "stopped"
watcherSpawned == wpc # "wait" /\ wpc' = "wait"
revokedSignalSent == revokedSignal' > revokedSignal
dispatchExit == dpc # "done" /\ dpc' = "done"
channelsClosed == ~closed /\ closed'

\* C14: the shutdown handshake runs in the order stopSignal (the dispatch
\* loop cancels the interjections and spawns the drain watcher, once),
\* revokedSignal, stopped and exit of the dispatch loop, close of the
\* channels by the ingress loop; the dispatch loop never receives from a
\* closed channel, and until revokedSignal arrives its select still takes
\* events and async jobs
C14_HandshakeOrder ==
  /\ [](/\ (wpc # "none") => stopSignalReceived
        /\ (revokedSignal > 0) => (wpc = "done")
        /\ (dpc \in {"stopped", "done"}) =>
              (wpc = "done" /\ revokedSignal = 0 /\ stopSignalReceived)
        /\ (ipc \in {"close", "done"}) => (dpc = "done")
        /\ closed => (ipc = "done" /\ dpc = "done")
        /\ (dpc = "select" /\ eventInput # <<>>) => ENABLED workEventInput
        /\ (dpc = "select" /\ asyncJobs # <<>>) => ENABLED workAsyncJob)
  /\ [][/\ stopSignalStep =>
             (~running /\ dpc = "select" /\ wpc = "none" /\ ~armed')
        /\ watcherSpawned <=> stopSignalStep
        /\ revokedSignalSent => (stopSignalReceived /\ wpc = "signal")
        /\ dispatchExit => (wpc = "done" /\ ~closed')
        /\ channelsClosed => (dpc = "done" /\ ipc = "close")
        /\ closed => (eventInput' = eventInput /\ asyncJobs' = asyncJobs)
       ]_vars

\* the handshake has run to its end, and after the halt the dispatch loop
\* handled a record context to which the pool had delivered nil
C14_Witness ==
  /\ Terminated /\ closed
  /\ wpc = "done" /\ revokedSignal = 0
  /\ \E i \in RecordContexts : ctx[i].st = "abandoned"

\* ------------------------------------------------------------------------
\* the dispatch loop waits for a slot the pool cannot deliver: the worker
\* runs, every slot is held, and the job that completes one of the holders
\* is in asyncJobs
starvedWait ==
  /\ running
  /\ waiting
  /\ Cardinality(slotHolders) = scenario.slots
  /\ \E k \in 1..Len(asyncJobs) :
       asyncJobs[k].fin = Complete /\ asyncJobs[k].ctx \in slotHolders

\* C15: assignProducer does not deadlock with the pool: while it waits the
\* dispatch loop can take any job in asyncJobs; a wait for a slot that only
\* a queued async completion can free ends with assignProducer returning;
\* assignProducer returns only on a value of producerChan; and no job
\* enqueued during the wait is left unfinalized when the dispatch loop has
\* returned
C15_AssignProducerNoDeadlock ==
  /\ []((dpc = "assignProducer" /\ asyncJobs # <<>>)
          => ENABLED assignProducerAsyncJob)
  /\ starvedWait ~> (dpc = "handle")
  /\ [][(dpc = "assignProducer" /\ dpc' # "assignProducer")
          => (ctx[dec].chan # "none" /\ dpc' = "handle" /\ dec' = dec)]_vars
  /\ []((dpc = "done") => \A k \in 1..Len(asyncJobs) : ~asyncJobs[k].wait)

\* ------------------------------------------------------------------------
\* the dispatch loop leaves forwardToEventSource for a record context whose
\* producerChan delivered nil
nilForwarded ==
  /\ dpc = "handle" /\ dpc' # "handle"
  /\ ctx[dec].kind = "record"
  /\ ctx[dec].chan = "nil"

\* C16: a record context whose producer is nil is abandoned: exactly one
\* token is released, the context is neither handled nor completed and
\* highestOffset stays; highestOffset is written only for a record context
\* that was assigned a producer slot, and to that context's offset + 1
C16_AbandonedContext ==
  [][/\ nilForwarded =>
          /\ maxPending' = maxPending - 1
          /\ ctx[dec].tok /\ ~ctx'[dec].tok
          /\ ctx'[dec].st = "abandoned"
          /\ \A i \in Contexts \ {dec} : ctx'[i] = ctx[i]
          /\ highestOffset' = highestOffset
     /\ (highestOffset' # highestOffset) =>
          /\ dpc = "handle"
          /\ ctx[dec].kind = "record"
          /\ ctx[dec].chan = "slot" /\ ctx[dec].taken
          /\ highestOffset' = ctx[dec].Offset + 1
          /\ ctx'[dec].st \in {"complete", "pending"}]_vars

\* a record context has been abandoned with highestOffset still at or below
\* its offset, while an earlier one had been handled with a slot
C16_Witness ==
  /\ dpc = "select"
  /\ \E i, j \in RecordContexts :
       /\ ctx[i].st = "abandoned" /\ ~ctx[i].tok
       /\ highestOffset <= ctx[i].Offset
       /\ ctx[j].chan = "slot" /\ ctx[j].taken
       /\ highestOffset = ctx[j].Offset + 1

\* ------------------------------------------------------------------------
\* the ingress loop goes on to examine the following record of its batch
nextRecord == records # <<>> /\ idx' = idx + 1 /\ idx > 0

\* a value leaves interjectionInput
interjectionRead ==
  interjectionInput # <<>> /\ interjectionInput' # interjectionInput

\* C17: after each record of a batch, admitted or dropped, the ingress loop
\* makes one non-blocking read of interjectionInput: an interjection that is
\* there stays until the ingress loop reads it, the read after the record
\* takes it and schedules it before the following record is examined, one
\* record is followed by at most one scheduled interjection, and a batch of
\* n records interleaves at most n interjections
C17_InterleaveOnePerRecord ==
  [][/\ interjectionRead =>
          /\ ipc \in {"select", "interleave"}
          /\ ipc' = "scheduleInterjection"
          /\ iij' = Head(interjectionInput)
          /\ interjectionInput' = Tail(interjectionInput)
     /\ (ipc = "examine" /\ ipc' # "examine") =>
          (ipc' = IF admissible(records[idx]) THEN "acquire" ELSE "interleave")
     /\ (ipc = "send" /\ ipc' # "send") => (ipc' = "interleave" /\ idx' = idx)
     /\ (ipc = "interleave" /\ ipc' # "interleave") =>
          IF interjectionInput # <<>>
            THEN interjectionRead /\ idx' = idx /\ records' = records
            ELSE ipc' \in {"examine", "select"} /\ iij' = iij
     /\ (ipc # "interleave" /\ ipc' = "interleave") =>
          (ipc \in {"examine", "send"} /\ idx' = idx)
     /\ nextRecord =>
          /\ ipc \in {"interleave", "scheduleInterjection", "sendInterjection"}
          /\ (ipc = "interleave") => (interjectionInput = <<>>)
     /\ (records # <<>> /\ ipc # "schedule") =>
          (interleaved' <= idx /\ idx <= Len(records))]_vars

\* after each of the two records of a batch the ingress loop has scheduled
\* an interjection that was waiting in interjectionInput
C17_Witness ==
  /\ records # <<>>
  /\ idx = 2
  /\ interleaved = 2
  /\ ipc = "sendInterjection"
  /\ Len(ctx) = 4

\* ------------------------------------------------------------------------
\* C18: add() never sends on a closed channel: no add that has passed its
\* isRevoked check is at its send on partitionInput, about to send or
\* blocked, once the ingress loop has closed partitionInput
C18_AddNeverSendsOnClosed == (apc = "send") => ~closed

\* ------------------------------------------------------------------------
\* the user calls AsyncComplete in this step
asyncCompleteCalled == jobs' < jobs

\* the record contexts whose handler returned without completing them
\* before the worker was halted and that are not complete yet
pendingBeforeHalt ==
  {i \in RecordContexts : ctx[i].st = "pending" /\ ctx[i].beforeHalt}

\* C19: for a context left pending before revoke(), AsyncComplete never
\* sends on asyncJobs once the ingress loop has closed it, and no job is
\* left in asyncJobs, its context still holding its token, when the dispatch
\* loop has returned
C19_AsyncCompleteSafe ==
  /\ [][(asyncCompleteCalled /\ pendingBeforeHalt # {}
                              /\ \A i \in Contexts :
                                    ctx[i].st = "pending"
                                      => i \in pendingBeforeHalt)
          => ~closed]_vars
  /\ []((dpc = "done") =>
          \A k \in 1..Len(asyncJobs) :
            (asyncJobs[k].ctx \in pendingBeforeHalt)
              => ~ctx[asyncJobs[k].ctx].tok)

\* ------------------------------------------------------------------------
\* C20: once the dispatch loop has taken stopSignal and cancelled the
\* interjections, tick() is not called again and no interjection timer is
\* armed, up to and including the termination of the worker
C20_NoTickAfterCancel ==
  [][stopSignalReceived => (ticks' = ticks /\ ~armed')]_vars

====
